---- MODULE Spec2Model ----
(***************************************************************************)
(* The Animator's in-browser 3D rig: camera projection, skinning and the   *)
(* pointer interaction controller (src/unnamed/part_002, both variants of  *)
(* the Animator component).                                                *)
(*                                                                         *)
(* Numbers.  The program computes in floating point; the model computes in *)
(* fixed point with integers:                                              *)
(*   - object-space coordinates and the zoom are in thousandths (1.3 is    *)
(*     1300, zoom 1 is 1000);                                              *)
(*   - camera angles are in half degrees (pitch 15 is 30), so that the     *)
(*     orbit update "prev + delta * 0.5" is exact for integer pointer      *)
(*     coordinates;                                                        *)
(*   - sines and cosines are in thousandths, from a table at multiples of  *)
(*     15 degrees (the pointer coordinates of the model are multiples of   *)
(*     30 pixels, which keeps every camera angle on the table);            *)
(*   - screen coordinates are whole pixels.                                *)
(* Quotients are truncated toward zero.                                    *)
(***************************************************************************)
EXTENDS Integers, Sequences, FiniteSets, TLC

VARIABLES
    variant,          \* 1: the plain Animator, 2: the Animator with pose and view presets
    selectedBone,     \* useState<Bone | null>
    rotation,         \* useState({x, y}): camera pitch and yaw, in half degrees
    cameraZoom,       \* useState(1), in thousandths
    isDraggingRef,    \* useRef(false): the camera-orbit flag
    lastMouseRef,     \* useRef({x, y}): the last pointer position of the orbit
    activeGizmoAxis,  \* useState<'x' | 'y' | 'z' | null>
    gizmoDragRef,     \* useRef<{startX, startY, startVal} | null>: <<>> is null
    bonePositions,    \* useState<Record<Bone, Vector3>>, in thousandths
    vertex,           \* the vertex handed to the skinning pass (<<>>: none yet)
    skinned,          \* the result of the last skinning pass (<<>>: none yet)
    currentTool,      \* useState<'select' | 'move' | 'rotate' | 'scale'>('move')
    activePose,       \* useState<ModelPose>('t-pose') (variant 2; "none" in variant 1)
    activeView,       \* useState<ModelView>('isometric') (variant 2; "none" in variant 1)
    prompt,           \* config.prompt, the text of the prompt field
    mesh,             \* useState<MeshGeometry | null>: <<>> is null
    isLoading,        \* useState(false)
    pending,          \* the calls of handleGenerateModel awaiting generate3DMesh
    started,          \* the number of calls of generate3DMesh so far
    meshRequest,      \* the call whose result is the displayed mesh (0: none)
    alerts,           \* the number of alert("Failed to generate model.") shown
    drawn,            \* the output of the last RenderedMesh pass (<<>>: none yet)
    events            \* the number of events the page has handled

vars == <<variant, selectedBone, rotation, cameraZoom, isDraggingRef, lastMouseRef,
          activeGizmoAxis, gizmoDragRef, bonePositions, vertex, skinned, currentTool,
          activePose, activeView, prompt, mesh, isLoading, pending, started, meshRequest,
          alerts, drawn, events>>

\* The state of the component (everything but the event count).
progVars == <<variant, selectedBone, rotation, cameraZoom, isDraggingRef, lastMouseRef,
              activeGizmoAxis, gizmoDragRef, bonePositions, vertex, skinned, currentTool,
              activePose, activeView, prompt, mesh, isLoading, pending, started, meshRequest,
              alerts, drawn>>

\* The tool, the prompt, the mesh and its requests, and the renderer's output: the state
\* no pointer, wheel, selection, edit or preset handler writes.
sceneVars == <<currentTool, prompt, mesh, isLoading, pending, started, meshRequest, alerts,
               drawn>>

\* The preset highlighted in the pose and view panels.
presetVars == <<activePose, activeView>>

(***************************************************************************)
(* Bounds of the model.                                                    *)
(***************************************************************************)
\* Largest absolute value (thousandths) a bone coordinate is written with.
MaxCoord == 2000
\* Number of events (pointer, wheel, click, edit, preset) of one run.
MaxEvents == 4
\* Number of events of one run of the gizmo drag on its own.
MaxDragEvents == 5

Axes == {"x", "y", "z"}

\* Pointer positions (clientX, clientY) of the pointer events.
PointerPoints == { [x |-> 0, y |-> 0], [x |-> 90, y |-> 30], [x |-> 0, y |-> -480] }

\* deltaY of the wheel events.
WheelDeltas == { -5000, 5000 }

\* Values typed into a numeric field (thousandths).
EditValues == { 0, 1500 }

\* Texts of the prompt field.
Prompts == { "", "robot", "cube" }

\* The toolbar buttons.
Tools == { "select", "move", "rotate", "scale" }

(***************************************************************************)
(* Arithmetic helpers of the fixed-point representation.                   *)
(***************************************************************************)
Abs(a) == IF a < 0 THEN -a ELSE a

Sgn(a) == IF a < 0 THEN -1 ELSE IF a > 0 THEN 1 ELSE 0

Max(a, b) == IF a >= b THEN a ELSE b

Min(a, b) == IF a <= b THEN a ELSE b

\* a / b truncated toward zero (b # 0).
Quot(a, b) == Sgn(a) * Sgn(b) * (Abs(a) \div Abs(b))

\* a * b / c truncated toward zero, without forming a * b (c > 0).
MulDiv(a, b, c) ==
    Sgn(a) * Sgn(b) * ((Abs(a) \div c) * Abs(b) + ((Abs(a) % c) * Abs(b)) \div c)

RECURSIVE SqrtSearch(_, _, _)
SqrtSearch(n, lo, hi) ==
    IF lo >= hi THEN lo
    ELSE LET mid == (lo + hi + 1) \div 2
         IN  IF mid * mid <= n THEN SqrtSearch(n, mid, hi) ELSE SqrtSearch(n, lo, mid - 1)

\* Math.sqrt on a natural number below 2^31, rounded down.
Sqrt(n) == SqrtSearch(n, 0, 46340)

\* Math.sqrt(a * a + b * b), the operands scaled down so that the squares fit.
Hypot(a, b) ==
    LET k == 1 + Max(Abs(a), Abs(b)) \div 30000
    IN  k * Sqrt(Quot(a, k) * Quot(a, k) + Quot(b, k) * Quot(b, k))

SinTable == <<0, 259, 500, 707, 866, 966, 1000>>

\* Math.sin(deg * Math.PI / 180) in thousandths, deg a multiple of 15.
SinDeg(deg) ==
    LET m == deg % 360
    IN  IF m <= 90 THEN SinTable[m \div 15 + 1]
        ELSE IF m <= 180 THEN SinTable[(180 - m) \div 15 + 1]
        ELSE IF m <= 270 THEN -SinTable[(m - 180) \div 15 + 1]
        ELSE -SinTable[(360 - m) \div 15 + 1]

CosDeg(deg) == SinDeg(deg + 90)

(***************************************************************************)
(* The skeleton.                                                           *)
(***************************************************************************)
Vec(a, b, c) == [x |-> a, y |-> b, z |-> c]

BONES == <<
    [id |-> "head",      parent |-> "none",  defaultPos |-> Vec(0, 1600, 0),    influenceY |-> <<1400, 2000>>],
    [id |-> "torso",     parent |-> "none",  defaultPos |-> Vec(0, 1000, 0),    influenceY |-> <<600, 1400>>],
    [id |-> "left-arm",  parent |-> "torso", defaultPos |-> Vec(-600, 1300, 0), influenceY |-> <<1100, 1500>>],
    [id |-> "right-arm", parent |-> "torso", defaultPos |-> Vec(600, 1300, 0),  influenceY |-> <<1100, 1500>>],
    [id |-> "left-leg",  parent |-> "torso", defaultPos |-> Vec(-300, 500, 0),  influenceY |-> <<0, 700>>],
    [id |-> "right-leg", parent |-> "torso", defaultPos |-> Vec(300, 500, 0),   influenceY |-> <<0, 700>>]
>>

BoneIds == { BONES[i].id : i \in 1..Len(BONES) }

BoneOf(id) == CHOOSE b \in { BONES[i] : i \in 1..Len(BONES) } : b.id = id

\* BONES.reduce((acc, bone) => ({...acc, [bone.id]: {...bone.defaultPos}}), {})
\* An initial pose that covers the bones with a parent only.
DefaultPositionsOfChildren ==
    [id \in { b \in BoneIds : BoneOf(b).parent # "none" } |-> BoneOf(id).defaultPos]

DefaultPositions == [id \in BoneIds |-> BoneOf(id).defaultPos]

\* bone.id.includes('left') || bone.id.includes('.L')
IsLeft(id) == id \in {"left-arm", "left-leg"}

\* A skinning that knows no right side.
IsRightNever(id) == FALSE

\* bone.id.includes('right') || bone.id.includes('.R')
IsRight(id) == id \in {"right-arm", "right-leg"}

\* A side test that also keeps right-side bones from the vertices with x = 0.
WrongSideInclusive(id, vx) == (IsLeft(id) /\ vx > 0) \/ (IsRight(id) /\ vx <= 0)

\* if (isLeft && vx > 0) return; if (isRight && vx < 0) return;
WrongSide(id, vx) == (IsLeft(id) /\ vx > 0) \/ (IsRight(id) /\ vx < 0)

\* A displacement measured from the origin instead of the default pose.
DisplacementFromOrigin(currentPos, defaultPos) == currentPos

\* dx, dy, dz: the displacement of a bone from its default pose.
Displacement(currentPos, defaultPos) ==
    Vec(currentPos.x - defaultPos.x, currentPos.y - defaultPos.y, currentPos.z - defaultPos.z)

VIEWS == <<
    [id |-> "front",     rot |-> [x |-> 0,   y |-> 0]],
    [id |-> "isometric", rot |-> [x |-> 60,  y |-> 90]],
    [id |-> "side",      rot |-> [x |-> 0,   y |-> 180]],
    [id |-> "back",      rot |-> [x |-> 0,   y |-> 360]],
    [id |-> "top",       rot |-> [x |-> 180, y |-> 0]]
>>

ViewIds == { VIEWS[i].id : i \in 1..Len(VIEWS) }

POSES == <<"t-pose", "standing", "walking", "running", "action", "sitting">>

PoseIds == { POSES[i] : i \in 1..Len(POSES) }

(***************************************************************************)
(* The 3D math engine.                                                     *)
(***************************************************************************)
\* A projection whose depth is the distance from the camera, which sits 5 units back.
projectWithCameraDistance(rot, zoom, x, y, z) ==
    LET degY == rot.y \div 2
        x1 == Quot(x * CosDeg(degY) - z * SinDeg(degY), 1000)
        z1 == Quot(x * SinDeg(degY) + z * CosDeg(degY), 1000)
        degX == rot.x \div 2
        y2 == Quot(y * CosDeg(degX) - z1 * SinDeg(degX), 1000)
        z2 == Quot(y * SinDeg(degX) + z1 * CosDeg(degX), 1000)
        scale == Quot(400 * zoom * 1000, z2 + 5000)
    IN  [x |-> 400 + Quot(MulDiv(x1 * 150, scale, 1000), 1000),
         y |-> 300 - Quot(MulDiv(y2 * 150, scale, 1000), 1000),
         depth |-> z2 + 5000,
         scale |-> scale]

\* project(x, y, z) under the camera (rot, zoom).
projectWith(rot, zoom, x, y, z) ==
    LET degY == rot.y \div 2
        x1 == Quot(x * CosDeg(degY) - z * SinDeg(degY), 1000)
        z1 == Quot(x * SinDeg(degY) + z * CosDeg(degY), 1000)
        degX == rot.x \div 2
        y2 == Quot(y * CosDeg(degX) - z1 * SinDeg(degX), 1000)
        z2 == Quot(y * SinDeg(degX) + z1 * CosDeg(degX), 1000)
        scale == Quot(400 * zoom * 1000, z2 + 5000)
    IN  [x |-> 400 + Quot(MulDiv(x1 * 150, scale, 1000), 1000),
         y |-> 300 - Quot(MulDiv(y2 * 150, scale, 1000), 1000),
         depth |-> z2,
         scale |-> scale]

project(x, y, z) == projectWith(rotation, cameraZoom, x, y, z)

\* The forEach of getSkinnedVertex from bone i on: acc is <<influence, weightTotal>>.
RECURSIVE SkinLoop(_, _, _, _)
SkinLoop(pos, v, i, acc) ==
    IF i > Len(BONES) THEN acc
    ELSE LET bone == BONES[i]
             minY == bone.influenceY[1]
             maxY == bone.influenceY[2]
             currentPos == pos[bone.id]
             defaultPos == bone.defaultPos
             d == Displacement(currentPos, defaultPos)
         IN  IF v.y >= minY /\ v.y <= maxY
             THEN IF WrongSide(bone.id, v.x) THEN SkinLoop(pos, v, i + 1, acc)
                  ELSE SkinLoop(pos, v, i + 1,
                                <<Vec(acc[1].x + d.x, acc[1].y + d.y, acc[1].z + d.z),
                                  acc[2] + 1>>)
             ELSE SkinLoop(pos, v, i + 1, acc)

\* A skinning that blends: the summed displacement divided by the number of bones.
skinWithAveraged(pos, v) ==
    LET r == SkinLoop(pos, v, 1, <<Vec(0, 0, 0), 0>>)
        influence == r[1]
        weightTotal == r[2]
    IN  IF weightTotal > 0
        THEN Vec(v.x + Quot(influence.x, weightTotal), v.y + Quot(influence.y, weightTotal),
                 v.z + Quot(influence.z, weightTotal))
        ELSE Vec(v.x, v.y, v.z)

\* A skinning that gives every contributing bone the weight one half.
skinWithHalfWeights(pos, v) ==
    LET r == SkinLoop(pos, v, 1, <<Vec(0, 0, 0), 0>>)
        influence == r[1]
        weightTotal == r[2]
    IN  IF weightTotal > 0
        THEN Vec(v.x + Quot(influence.x, 2), v.y + Quot(influence.y, 2),
                 v.z + Quot(influence.z, 2))
        ELSE Vec(v.x, v.y, v.z)

\* getSkinnedVertex(v) under the bone positions pos.
skinWith(pos, v) ==
    LET r == SkinLoop(pos, v, 1, <<Vec(0, 0, 0), 0>>)
        influence == r[1]
        weightTotal == r[2]
    IN  IF weightTotal > 0
        THEN Vec(v.x + influence.x, v.y + influence.y, v.z + influence.z)
        ELSE Vec(v.x, v.y, v.z)

getSkinnedVertex(v) == skinWith(bonePositions, v)

(***************************************************************************)
(* Mesh data and the renderer.  A mesh is what JSON.parse returned: its    *)
(* "vertices" and "faces" are JSON values, tagged by what they are.  A     *)
(* vertex is <<x, y, z>> in thousandths; a face is <<v1, v2, v3>> or       *)
(* <<v1, v2, v3, color>> with the indices counted from 0 as in the source. *)
(***************************************************************************)
\* A JSON array.
List(items) == [tag |-> "list", items |-> items]

\* A JSON value that is truthy and no array (a number, a string, an object).
Scalar == [tag |-> "scalar", items |-> <<>>]

\* A JSON value that is falsy (0, "", false, null).
Falsy == [tag |-> "falsy", items |-> <<>>]

\* A property the object does not have (undefined).
Missing == [tag |-> "missing", items |-> <<>>]

MeshOf(vertices, faces) == [vertices |-> List(vertices), faces |-> List(faces)]

\* The fallback cube of generate3DMesh.
FallbackCube ==
    MeshOf(<< <<-1000, -1000, -1000>>, <<1000, -1000, -1000>>, <<1000, 1000, -1000>>,
              <<-1000, 1000, -1000>>, <<-1000, -1000, 1000>>, <<1000, -1000, 1000>>,
              <<1000, 1000, 1000>>, <<-1000, 1000, 1000>> >>,
           << <<0, 1, 2, "#FF0000">>, <<0, 2, 3, "#FF0000">>,
              <<1, 5, 6, "#00FF00">>, <<1, 6, 2, "#00FF00">>,
              <<5, 4, 7, "#0000FF">>, <<5, 7, 6, "#0000FF">>,
              <<4, 0, 3, "#FFFF00">>, <<4, 3, 7, "#FFFF00">>,
              <<3, 2, 6, "#00FFFF">>, <<3, 6, 7, "#00FFFF">>,
              <<4, 5, 1, "#FF00FF">>, <<4, 1, 0, "#FF00FF">> >>)

\* Three triangles below the rig (no bone covers y < 0), at z = 5, z = 1 and z = 3, in
\* that order; the third has no color.
ThreeLayers ==
    MeshOf(<< <<0, -1000, 5000>>, <<500, -1000, 5000>>, <<0, -500, 5000>>,
              <<0, -1000, 1000>>, <<500, -1000, 1000>>, <<0, -500, 1000>>,
              <<0, -1000, 3000>>, <<500, -1000, 3000>>, <<0, -500, 3000>> >>,
           << <<0, 1, 2, "#111111">>, <<3, 4, 5, "#222222">>, <<6, 7, 8>> >>)

\* Four faces over four vertices: faces 0 and 2 are the same triangle, and under the
\* front view all four have the same depth.
TiedFaces ==
    MeshOf(<< <<-500, 1300, 0>>, <<500, 1300, 0>>, <<0, 1800, 0>>, <<0, 300, 0>> >>,
           << <<0, 1, 2, "#AA0000">>, <<0, 1, 3, "#00AA00">>, <<0, 1, 2, "#0000AA">>,
              <<1, 2, 3, "#AAAAAA">> >>)

\* A mesh with vertices and no face.
NoFaces == MeshOf(<< <<0, 0, 0>> >>, << >>)

\* One vertex and a face that names the vertices 0, 1 and 2.
DanglingFace == MeshOf(<< <<0, 0, 0>> >>, << <<0, 1, 2, "#FFFFFF">> >>)

(***************************************************************************)
(* generate3DMesh (src/services/geminiService.ts).  What the provider does *)
(* is the environment's choice: a response says how the call ended and,    *)
(* when it returned JSON, what data.vertices and data.faces are.           *)
(*   "client-throws": new GoogleGenAI(...) threw (it is called before the  *)
(*                    try block);                                          *)
(*   "rejects":       ai.models.generateContent rejected;                  *)
(*   "no-text":       response.text is undefined or empty;                 *)
(*   "not-json":      JSON.parse(text) throws;                             *)
(*   "json-null":     JSON.parse(text) is null;                            *)
(*   "json":          JSON.parse(text) is any other value.                 *)
(***************************************************************************)
Response(kind, vertices, faces) == [kind |-> kind, vertices |-> vertices, faces |-> faces]

\* !value is false
Truthy(value) == value.tag \in {"list", "scalar"}

\* The try block of generate3DMesh: threw says whether it ended in the catch block,
\* value is what it returned otherwise.
TryGenerate(response) ==
    IF response.kind \in {"rejects", "no-text", "not-json", "json-null"}
    THEN [threw |-> TRUE, value |-> <<>>]
    ELSE IF ~Truthy(response.vertices) \/ ~Truthy(response.faces)
    THEN [threw |-> TRUE, value |-> <<>>]
    ELSE [threw |-> FALSE,
          value |-> << [vertices |-> response.vertices, faces |-> response.faces] >>]

\* A generate3DMesh that hands the provider's failure on to its caller.
generate3DMeshRethrow(request, response) ==
    IF response.kind = "client-throws" \/ TryGenerate(response).threw
    THEN [rejected |-> TRUE, value |-> <<>>]
    ELSE [rejected |-> FALSE, value |-> TryGenerate(response).value]

\* generate3DMesh(prompt): rejected says whether the promise rejected, value is the
\* mesh it resolved with otherwise.
generate3DMesh(request, response) ==
    IF response.kind = "client-throws"
    THEN [rejected |-> TRUE, value |-> <<>>]
    ELSE IF TryGenerate(response).threw
    THEN [rejected |-> FALSE, value |-> <<FallbackCube>>]
    ELSE [rejected |-> FALSE, value |-> TryGenerate(response).value]

\* What the provider does with one call.  JSON values that are no object with truthy
\* "vertices" and "faces" come in the shapes the guard of generate3DMesh tells apart.
ProviderResponses ==
    { Response(kind, Missing, Missing) :
          kind \in {"client-throws", "rejects", "no-text", "not-json", "json-null"} }
    \cup { Response("json", vertices, faces) :
              vertices \in {Missing, Falsy, Scalar, List(<< <<0, 0, 0>> >>)},
              faces \in {Missing, Falsy, Scalar, List(<< <<0, 0, 0, "#FFFFFF">> >>)} }
    \cup { Response("json", m.vertices, m.faces) : m \in {ThreeLayers, NoFaces, DanglingFace} }

\* A comparator that sorts the near faces first.
compareNearFirst(a, b) == a.depth - b.depth

\* (a, b) => b.depth - a.depth
compare(a, b) == b.depth - a.depth

RECURSIVE InsertFace(_, _)
\* Array.prototype.sort is stable: f goes behind every face it does not precede.
InsertFace(f, sorted) ==
    IF sorted = <<>> THEN <<f>>
    ELSE IF compare(Head(sorted), f) <= 0
         THEN <<Head(sorted)>> \o InsertFace(f, Tail(sorted))
         ELSE <<f>> \o sorted

RECURSIVE SortFaces(_, _)
\* facesToRender.sort(compare): the faces of todo inserted, in order, into sorted.
SortFaces(todo, sorted) ==
    IF todo = <<>> THEN sorted
    ELSE SortFaces(Tail(todo), InsertFace(Head(todo), sorted))

\* One element of facesToRender.  depth is p1.depth + p2.depth + p3.depth, three times
\* the mean of the source: the mean in units of 1/3000.  The field face (the index of
\* the face in mesh.faces) is not in the source; it tells the polygons apart.
FaceToRender(tv, faces, i) ==
    LET face == faces[i]
        v1 == tv[face[1] + 1]
        v2 == tv[face[2] + 1]
        v3 == tv[face[3] + 1]
        color == IF Len(face) >= 4 /\ face[4] # "" THEN face[4] ELSE "#cccccc"
        p1 == project(v1.x, v1.y, v1.z)
        p2 == project(v2.x, v2.y, v2.z)
        p3 == project(v3.x, v3.y, v3.z)
    IN  [points |-> << [x |-> p1.x, y |-> p1.y], [x |-> p2.x, y |-> p2.y],
                       [x |-> p3.x, y |-> p3.y] >>,
         color |-> color,
         depth |-> p1.depth + p2.depth + p3.depth,
         face |-> i - 1]

\* The useMemo body of RenderedMesh.  status "null": no mesh, nothing drawn; "error":
\* the body threw a TypeError (mesh.vertices.map or mesh.faces.map is no function, or a
\* face names a vertex that transformedVertices does not have); "ok": polygons is
\* the list of polygons in the order they are emitted.
RenderedMesh ==
    IF mesh = <<>> THEN [status |-> "null", polygons |-> <<>>]
    ELSE IF mesh[1].vertices.tag # "list" \/ mesh[1].faces.tag # "list"
    THEN [status |-> "error", polygons |-> <<>>]
    ELSE LET vertices == mesh[1].vertices.items
             faces == mesh[1].faces.items
             transformedVertices ==
                 [i \in 1..Len(vertices) |->
                     getSkinnedVertex(Vec(vertices[i][1], vertices[i][2], vertices[i][3]))]
         IN  IF \E i \in 1..Len(faces) : \E k \in 1..3 :
                    faces[i][k] < 0 \/ faces[i][k] >= Len(vertices)
             THEN [status |-> "error", polygons |-> <<>>]
             ELSE [status |-> "ok",
                   polygons |->
                       SortFaces([i \in 1..Len(faces) |->
                                     FaceToRender(transformedVertices, faces, i)], <<>>)]

\* The polygons of {RenderedMesh}, in document order.
MeshLayer ==
    LET polygons == RenderedMesh.polygons
    IN  [i \in 1..Len(polygons) |-> [kind |-> "face", of |-> polygons[i].face]]

\* The <g> of one bone: the line to the parent, when the bone has one, and the circle.
BoneGroup(bone) ==
    (IF bone.parent # "none" THEN << [kind |-> "connector", of |-> bone.id] >> ELSE <<>>)
        \o << [kind |-> "marker", of |-> bone.id] >>

RECURSIVE RigLayer(_)
\* BONES.map(bone => <g>...</g>) from bone i on, in document order.
RigLayer(i) == IF i > Len(BONES) THEN <<>> ELSE BoneGroup(BONES[i]) \o RigLayer(i + 1)

\* The line of one gizmo axis and the tip the tool gives it.
GizmoAxis(axis) ==
    << [kind |-> "gizmo-line", of |-> axis] >>
        \o (IF currentTool \in {"move", "select"} THEN << [kind |-> "gizmo-arrow", of |-> axis] >>
            ELSE <<>>)
        \o (IF currentTool = "scale" THEN << [kind |-> "gizmo-square", of |-> axis] >> ELSE <<>>)

\* <RenderGizmos />: nothing without a selection, else the axes z, y, x and the centre.
RenderGizmos ==
    IF selectedBone = "null" THEN <<>>
    ELSE GizmoAxis("z") \o GizmoAxis("y") \o GizmoAxis("x")
            \o << [kind |-> "gizmo-center", of |-> selectedBone] >>

\* The children of the <svg>, flattened, in document order, which is the order in
\* which they are painted.
DrawList == MeshLayer \o RigLayer(1) \o RenderGizmos

(***************************************************************************)
(* The state after construction.                                           *)
(***************************************************************************)
InitialRotation(v) == IF v = 1 THEN [x |-> 30, y |-> 90] ELSE [x |-> 60, y |-> 90]

Init ==
    /\ variant \in {1, 2}
    /\ selectedBone = "null"
    /\ rotation = InitialRotation(variant)
    /\ cameraZoom = 1000
    /\ isDraggingRef = FALSE
    /\ lastMouseRef = [x |-> 0, y |-> 0]
    /\ activeGizmoAxis = "null"
    /\ gizmoDragRef = <<>>
    /\ bonePositions = DefaultPositions
    /\ vertex = <<>>
    /\ skinned = <<>>
    /\ currentTool = "move"
    /\ activePose = (IF variant = 2 THEN "t-pose" ELSE "none")
    /\ activeView = (IF variant = 2 THEN "isometric" ELSE "none")
    /\ prompt = ""
    /\ mesh = <<>>
    /\ isLoading = FALSE
    /\ pending = {}
    /\ started = 0
    /\ meshRequest = 0
    /\ alerts = 0
    /\ drawn = <<>>
    /\ events = 0

(***************************************************************************)
(* Input handlers.                                                         *)
(***************************************************************************)
\* The bone positions the model goes on with: within the bounds of the model.
WithinBounds(pos) ==
    \A id \in BoneIds : \A a \in Axes : Abs(pos[id][a]) <= MaxCoord

\* { ...obj, [key]: val }: obj with key set to val, the key added if obj has none.
Spread(obj, key, val) == [k \in DOMAIN obj \cup {key} |-> IF k = key THEN val ELSE obj[k]]

\* An updater that forgets to spread the bone's other coordinates.
handleBoneChangeNoSpread(prev, axis, val) ==
    IF selectedBone = "null" THEN prev
    ELSE [prev EXCEPT ![selectedBone] = [Vec(0, 0, 0) EXCEPT ![axis] = val]]

\* The updater of handleBoneChange(axis, val), applied to prev.
handleBoneChange(prev, axis, val) ==
    IF selectedBone = "null" THEN prev
    ELSE Spread(prev, selectedBone,
                Spread(IF selectedBone \in DOMAIN prev THEN prev[selectedBone] ELSE <<>>,
                       axis, val))

handleMouseDown(e) ==
    IF activeGizmoAxis # "null"
    THEN UNCHANGED progVars
    ELSE /\ isDraggingRef' = TRUE
         /\ lastMouseRef' = [x |-> e.x, y |-> e.y]
         /\ UNCHANGED <<sceneVars, presetVars, variant,
                        selectedBone, rotation, cameraZoom, activeGizmoAxis,
                        gizmoDragRef, bonePositions, vertex, skinned>>

\* len > 0 ? component / len : 0, in thousandths.
Normalise(component, len) == IF len > 0 THEN Quot(component * 1000, len) ELSE 0

\* A drag that offsets the coordinate's current value instead of startVal.
GizmoNewValFromCurrent(e) ==
    LET drag == gizmoDragRef[1]
        dx == e.x - drag.startX
        dy == e.y - drag.startY
        pos == bonePositions[selectedBone]
        origin == project(pos.x, pos.y, pos.z)
        axisVec == [pos EXCEPT ![activeGizmoAxis] = @ + 500]
        projectedAxis == project(axisVec.x, axisVec.y, axisVec.z)
        screenVecX == projectedAxis.x - origin.x
        screenVecY == projectedAxis.y - origin.y
        len == Hypot(screenVecX, screenVecY)
        normX == Normalise(screenVecX, len)
        normY == Normalise(screenVecY, len)
        projection == dx * normX + dy * normY
        sensitivity == Quot(5000000, cameraZoom)
    IN  pos[activeGizmoAxis]
          + Quot(MulDiv(projection, sensitivity, 1000), IF len # 0 THEN len ELSE 1)

\* A drag whose pointer offset is measured from the last pointer position of the orbit.
GizmoNewValFromLastMouse(e) ==
    LET drag == gizmoDragRef[1]
        dx == e.x - lastMouseRef.x
        dy == e.y - lastMouseRef.y
        pos == bonePositions[selectedBone]
        origin == project(pos.x, pos.y, pos.z)
        axisVec == [pos EXCEPT ![activeGizmoAxis] = @ + 500]
        projectedAxis == project(axisVec.x, axisVec.y, axisVec.z)
        screenVecX == projectedAxis.x - origin.x
        screenVecY == projectedAxis.y - origin.y
        len == Hypot(screenVecX, screenVecY)
        normX == Normalise(screenVecX, len)
        normY == Normalise(screenVecY, len)
        projection == dx * normX + dy * normY
        sensitivity == Quot(5000000, cameraZoom)
    IN  drag.startVal
          + Quot(MulDiv(projection, sensitivity, 1000), IF len # 0 THEN len ELSE 1)

\* newVal of the gizmo branch of handleMouseMove, for the pointer at e.
GizmoNewVal(e) ==
    LET drag == gizmoDragRef[1]
        dx == e.x - drag.startX
        dy == e.y - drag.startY
        pos == bonePositions[selectedBone]
        origin == project(pos.x, pos.y, pos.z)
        axisVec == [pos EXCEPT ![activeGizmoAxis] = @ + 500]
        projectedAxis == project(axisVec.x, axisVec.y, axisVec.z)
        screenVecX == projectedAxis.x - origin.x
        screenVecY == projectedAxis.y - origin.y
        len == Hypot(screenVecX, screenVecY)
        normX == Normalise(screenVecX, len)
        normY == Normalise(screenVecY, len)
        projection == dx * normX + dy * normY
        sensitivity == Quot(5000000, cameraZoom)
    IN  drag.startVal
          + Quot(MulDiv(projection, sensitivity, 1000), IF len # 0 THEN len ELSE 1)

\* An orbit that does not clamp the pitch.
OrbitRotationUnclamped(prev, dx, dy) == [x |-> prev.x + dy, y |-> prev.y + dx]

\* An orbit that leaves the yaw where it is when the pitch hits its limit.
OrbitRotationYawStopsAtLimit(prev, dx, dy) ==
    [x |-> Max(-180, Min(180, prev.x + dy)),
     y |-> IF prev.x + dy > 180 \/ prev.x + dy < -180 THEN prev.y ELSE prev.y + dx]

\* rotation after the orbit branch of handleMouseMove.
OrbitRotation(prev, dx, dy) ==
    [x |-> Max(-180, Min(180, prev.x + dy)), y |-> prev.y + dx]

\* A pointer-move that tests the orbit flag before the gizmo drag.
handleMouseMoveOrbitFirst(e) ==
    IF isDraggingRef
    THEN /\ rotation' = OrbitRotation(rotation, e.x - lastMouseRef.x, e.y - lastMouseRef.y)
         /\ lastMouseRef' = [x |-> e.x, y |-> e.y]
         /\ UNCHANGED <<sceneVars, presetVars, variant,
                        selectedBone, cameraZoom, isDraggingRef, activeGizmoAxis,
                        gizmoDragRef, bonePositions, vertex, skinned>>
    ELSE IF activeGizmoAxis # "null" /\ selectedBone # "null" /\ gizmoDragRef # <<>>
    THEN /\ bonePositions' = handleBoneChange(bonePositions, activeGizmoAxis, GizmoNewVal(e))
         /\ WithinBounds(bonePositions')
         /\ UNCHANGED <<sceneVars, presetVars, variant,
                        selectedBone, rotation, cameraZoom, isDraggingRef,
                        lastMouseRef, activeGizmoAxis, gizmoDragRef, vertex, skinned>>
    ELSE UNCHANGED progVars

handleMouseMove(e) ==
    IF activeGizmoAxis # "null" /\ selectedBone # "null" /\ gizmoDragRef # <<>>
    THEN /\ bonePositions' = handleBoneChange(bonePositions, activeGizmoAxis, GizmoNewVal(e))
         /\ WithinBounds(bonePositions')
         /\ UNCHANGED <<sceneVars, presetVars, variant,
                        selectedBone, rotation, cameraZoom, isDraggingRef,
                        lastMouseRef, activeGizmoAxis, gizmoDragRef, vertex, skinned>>
    ELSE IF isDraggingRef
    THEN /\ rotation' = OrbitRotation(rotation, e.x - lastMouseRef.x, e.y - lastMouseRef.y)
         /\ lastMouseRef' = [x |-> e.x, y |-> e.y]
         /\ UNCHANGED <<sceneVars, presetVars, variant,
                        selectedBone, cameraZoom, isDraggingRef, activeGizmoAxis,
                        gizmoDragRef, bonePositions, vertex, skinned>>
    ELSE UNCHANGED progVars

\* A pointer-up that ends the orbit only and leaves a gizmo drag active.
handleMouseUpOrbitOnly ==
    /\ isDraggingRef' = FALSE
    /\ UNCHANGED <<sceneVars, presetVars, variant,
                   selectedBone, rotation, cameraZoom, lastMouseRef, activeGizmoAxis,
                   gizmoDragRef, bonePositions, vertex, skinned>>

handleMouseUp ==
    /\ isDraggingRef' = FALSE
    /\ activeGizmoAxis' = "null"
    /\ gizmoDragRef' = <<>>
    /\ UNCHANGED <<sceneVars, presetVars, variant, selectedBone, rotation, cameraZoom, lastMouseRef,
                   bonePositions, vertex, skinned>>

\* A zoom clamped from above only.
WheelZoomNoFloor(prev, deltaY) == Min(5000, prev - deltaY)

\* The updater of handleWheel, applied to prev.
WheelZoom(prev, deltaY) == Max(100, Min(5000, prev - deltaY))

handleWheel(deltaY) ==
    /\ cameraZoom' = WheelZoom(cameraZoom, deltaY)
    /\ UNCHANGED <<sceneVars, presetVars, variant,
                   selectedBone, rotation, isDraggingRef, lastMouseRef,
                   activeGizmoAxis, gizmoDragRef, bonePositions, vertex, skinned>>

\* A gizmo press that does not test the selection.
handleGizmoMouseDownUnguarded(e, axis) ==
    /\ activeGizmoAxis' = axis
    /\ gizmoDragRef' = << [startX |-> e.x, startY |-> e.y,
                           startVal |-> IF selectedBone = "null" THEN 0
                                        ELSE bonePositions[selectedBone][axis]] >>
    /\ UNCHANGED <<sceneVars, presetVars, variant,
                   selectedBone, rotation, cameraZoom, isDraggingRef,
                   lastMouseRef, bonePositions, vertex, skinned>>

\* A gizmo press that snaps the pressed coordinate to 0 before the drag starts.
handleGizmoMouseDownSnap(e, axis) ==
    IF selectedBone = "null"
    THEN UNCHANGED progVars
    ELSE /\ activeGizmoAxis' = axis
         /\ gizmoDragRef' = << [startX |-> e.x, startY |-> e.y, startVal |-> 0] >>
         /\ bonePositions' = handleBoneChange(bonePositions, axis, 0)
         /\ UNCHANGED <<sceneVars, presetVars, variant,
                        selectedBone, rotation, cameraZoom, isDraggingRef,
                        lastMouseRef, vertex, skinned>>

handleGizmoMouseDown(e, axis) ==
    IF selectedBone = "null"
    THEN UNCHANGED progVars
    ELSE /\ activeGizmoAxis' = axis
         /\ gizmoDragRef' = << [startX |-> e.x, startY |-> e.y,
                                startVal |-> bonePositions[selectedBone][axis]] >>
         /\ UNCHANGED <<sceneVars, presetVars, variant,
                        selectedBone, rotation, cameraZoom, isDraggingRef,
                        lastMouseRef, bonePositions, vertex, skinned>>

\* onClick of a bone marker: setSelectedBone(bone.id).
handleBoneClick(id) ==
    /\ selectedBone' = id
    /\ UNCHANGED <<sceneVars, presetVars, variant,
                   rotation, cameraZoom, isDraggingRef, lastMouseRef,
                   activeGizmoAxis, gizmoDragRef, bonePositions, vertex, skinned>>

\* onChange of a numeric field: handleBoneChange(axis, parseFloat(e.target.value)).
handleNumericEdit(axis, val) ==
    /\ bonePositions' = handleBoneChange(bonePositions, axis, val)
    /\ WithinBounds(bonePositions')
    /\ UNCHANGED <<sceneVars, presetVars, variant,
                   selectedBone, rotation, cameraZoom, isDraggingRef,
                   lastMouseRef, activeGizmoAxis, gizmoDragRef, vertex, skinned>>

\* A pose preset that highlights the pose and leaves the bones where they are.
handlePoseSelectNoReset(pose) ==
    /\ activePose' = pose
    /\ UNCHANGED <<sceneVars, activeView, variant, selectedBone, rotation, cameraZoom,
                   isDraggingRef, lastMouseRef, activeGizmoAxis, gizmoDragRef, bonePositions,
                   vertex, skinned>>

handlePoseSelect(pose) ==
    /\ activePose' = pose
    /\ bonePositions' = DefaultPositions
    /\ UNCHANGED <<sceneVars, activeView, variant, selectedBone, rotation, cameraZoom,
                   isDraggingRef, lastMouseRef, activeGizmoAxis, gizmoDragRef, vertex, skinned>>

\* A view preset that also puts the bones back to rest.
handleViewSelectResetsPose(view) ==
    /\ activeView' = view
    /\ \E i \in 1..Len(VIEWS) : VIEWS[i].id = view /\ rotation' = VIEWS[i].rot
    /\ bonePositions' = DefaultPositions
    /\ UNCHANGED <<sceneVars, activePose, variant, selectedBone, cameraZoom, isDraggingRef,
                   lastMouseRef, activeGizmoAxis, gizmoDragRef, vertex, skinned>>

handleViewSelect(view) ==
    /\ activeView' = view
    /\ LET found == { i \in 1..Len(VIEWS) : VIEWS[i].id = view }
           viewConfig == VIEWS[CHOOSE i \in found : \A j \in found : i <= j]
       IN  IF found # {} THEN rotation' = viewConfig.rot ELSE UNCHANGED rotation
    /\ UNCHANGED <<sceneVars, activePose, variant, selectedBone, cameraZoom, isDraggingRef,
                   lastMouseRef, activeGizmoAxis, gizmoDragRef, bonePositions, vertex, skinned>>

\* A handler that starts the request without setIsLoading(true).
handleGenerateModelNoLoading ==
    IF prompt = ""
    THEN UNCHANGED progVars
    ELSE /\ started' = started + 1
         /\ pending' = pending \cup
                { [id |-> started + 1, prompt |-> prompt, pose |-> activePose,
                   view |-> activeView] }
         /\ UNCHANGED <<presetVars, variant, selectedBone, rotation, cameraZoom,
                        isDraggingRef, lastMouseRef, activeGizmoAxis, gizmoDragRef,
                        bonePositions, vertex, skinned, currentTool, prompt, mesh,
                        isLoading, meshRequest, alerts, drawn>>

\* The first part of handleGenerateModel, up to the await: the guard on the prompt,
\* setIsLoading(true) and the call of generate3DMesh.
handleGenerateModel ==
    IF prompt = ""
    THEN UNCHANGED progVars
    ELSE /\ isLoading' = TRUE
         /\ started' = started + 1
         /\ pending' = pending \cup
                { [id |-> started + 1, prompt |-> prompt, pose |-> activePose,
                   view |-> activeView] }
         /\ UNCHANGED <<presetVars, variant, selectedBone, rotation, cameraZoom,
                        isDraggingRef, lastMouseRef, activeGizmoAxis, gizmoDragRef,
                        bonePositions, vertex, skinned, currentTool, prompt, mesh,
                        meshRequest, alerts, drawn>>

\* A handler without the finally block: setIsLoading(false) after setMesh only.
resumeGenerateModelNoFinally(request, response) ==
    LET geometry == generate3DMesh(request, response)
    IN  /\ IF geometry.rejected
           THEN alerts' = alerts + 1 /\ UNCHANGED <<mesh, meshRequest, isLoading>>
           ELSE /\ mesh' = geometry.value
                /\ meshRequest' = request.id
                /\ isLoading' = FALSE
                /\ UNCHANGED alerts
        /\ pending' = pending \ {request}
        /\ UNCHANGED <<presetVars, variant, selectedBone, rotation, cameraZoom,
                       isDraggingRef, lastMouseRef, activeGizmoAxis, gizmoDragRef,
                       bonePositions, vertex, skinned, currentTool, prompt, started, drawn>>

\* The rest of handleGenerateModel, once generate3DMesh has settled: setMesh(geometry),
\* or the catch block with its alert; then the finally block.
resumeGenerateModel(request, response) ==
    LET geometry == generate3DMesh(request, response)
    IN  /\ IF geometry.rejected
           THEN alerts' = alerts + 1 /\ UNCHANGED <<mesh, meshRequest>>
           ELSE mesh' = geometry.value /\ meshRequest' = request.id /\ UNCHANGED alerts
        /\ isLoading' = FALSE
        /\ pending' = pending \ {request}
        /\ UNCHANGED <<presetVars, variant, selectedBone, rotation, cameraZoom,
                       isDraggingRef, lastMouseRef, activeGizmoAxis, gizmoDragRef,
                       bonePositions, vertex, skinned, currentTool, prompt, started, drawn>>

\* onChange of the prompt field: setConfig(prev => ({...prev, prompt: e.target.value})).
handlePromptChange(text) ==
    /\ prompt' = text
    /\ UNCHANGED <<presetVars, variant, selectedBone, rotation, cameraZoom, isDraggingRef,
                   lastMouseRef, activeGizmoAxis, gizmoDragRef, bonePositions, vertex,
                   skinned, currentTool, mesh, isLoading, pending, started, meshRequest,
                   alerts, drawn>>

\* onClick of a toolbar button: setCurrentTool(tool).
handleToolSelect(tool) ==
    /\ currentTool' = tool
    /\ UNCHANGED <<presetVars, variant, selectedBone, rotation, cameraZoom, isDraggingRef,
                   lastMouseRef, activeGizmoAxis, gizmoDragRef, bonePositions, vertex,
                   skinned, prompt, mesh, isLoading, pending, started, meshRequest,
                   alerts, drawn>>

(***************************************************************************)
(* The events of the page.                                                 *)
(***************************************************************************)
MouseDown == \E e \in PointerPoints : handleMouseDown(e)

MouseMove == \E e \in PointerPoints : handleMouseMove(e)

MouseUp == handleMouseUp

\* onMouseLeave={handleMouseUp}
MouseLeave == handleMouseUp

Wheel == \E d \in WheelDeltas : handleWheel(d)

GizmoMouseDown == \E e \in PointerPoints : \E axis \in Axes : handleGizmoMouseDown(e, axis)

\* A click follows the pointer-up on the same marker, which the viewport has handled
\* with handleMouseUp: the click handler runs with no interaction active.
BoneClick ==
    /\ ~isDraggingRef
    /\ activeGizmoAxis = "null"
    /\ \E id \in BoneIds : handleBoneClick(id)

\* The coordinate fields are rendered for the selected bone only.
NumericEdit ==
    /\ selectedBone # "null"
    /\ \E axis \in Axes : \E val \in EditValues : handleNumericEdit(axis, val)

PoseSelect == variant = 2 /\ \E pose \in PoseIds : handlePoseSelect(pose)

ViewSelect == variant = 2 /\ \E view \in ViewIds : handleViewSelect(view)

\* A generate button that stays enabled while a request is pending.
GenerateClickWhileLoading ==
    /\ variant = 2 => prompt # ""
    /\ handleGenerateModel

\* The generate button: disabled={isLoading} in variant 1,
\* disabled={isLoading || !config.prompt} in variant 2.
GenerateClick ==
    /\ ~isLoading
    /\ variant = 2 => prompt # ""
    /\ handleGenerateModel

\* The promise of a pending call of generate3DMesh settles.
GenerateSettle ==
    \E request \in pending : \E response \in ProviderResponses :
        resumeGenerateModel(request, response)

PromptChange == \E text \in Prompts : handlePromptChange(text)

ToolSelect == \E tool \in Tools : handleToolSelect(tool)

\* One event of the page, handled to completion by its handler.
Event(handler) ==
    /\ events < MaxEvents
    /\ events' = events + 1
    /\ handler

Next ==
    \/ Event(MouseDown)
    \/ Event(MouseMove)
    \/ Event(MouseUp)
    \/ Event(MouseLeave)
    \/ Event(Wheel)
    \/ Event(GizmoMouseDown)
    \/ Event(BoneClick)
    \/ Event(NumericEdit)
    \/ Event(PoseSelect)
    \/ Event(ViewSelect)

Spec == Init /\ [][Next]_vars

\* One event of a run of the gizmo drag on its own.
DragEvent(handler) ==
    /\ events < MaxDragEvents
    /\ events' = events + 1
    /\ handler

\* The events that select a bone, drag or edit it, and put the camera on a preset.
NextDrag ==
    \/ DragEvent(BoneClick)
    \/ DragEvent(GizmoMouseDown)
    \/ DragEvent(MouseMove)
    \/ DragEvent(NumericEdit)
    \/ DragEvent(ViewSelect)

\* The Animator under the events of a gizmo drag only, in longer runs.
DragSpec == Init /\ [][NextDrag]_vars

\* The events of mesh generation.
NextMesh ==
    \/ Event(PromptChange)
    \/ Event(GenerateClick)
    \/ Event(GenerateSettle)

\* The Animator under the events of mesh generation only.
MeshSpec == Init /\ [][NextMesh]_vars

\* Every event of the page.
NextAnimator ==
    \/ Next
    \/ NextMesh
    \/ Event(ToolSelect)

\* The Animator under every event of the page.
AnimatorSpec == Init /\ [][NextAnimator]_vars

(***************************************************************************)
(* The skinning pass on its own: getSkinnedVertex applied to one vertex    *)
(* under one pose.  Every pose is one the numeric fields can produce.      *)
(***************************************************************************)
\* Vertices handed to the skinning pass: both sides and x = 0; below, on the limits
\* of, inside and above every influence range.
SkinVertices ==
    { Vec(vx, vy, vz) : vx \in {-500, 0, 500},
                        vy \in {-100, 0, 300, 600, 700, 1000, 1100, 1300, 1400, 1500, 1600,
                                2000, 2100},
                        vz \in {0, 250} }

\* The displacement a pose of SkinPoses gives a bone: a different one for every bone,
\* so that a sum of displacements tells which bones contributed.
SkinOffset(id) ==
    LET w == CASE id = "head" -> 1 [] id = "torso" -> 2 [] id = "left-arm" -> 4
               [] id = "right-arm" -> 8 [] id = "left-leg" -> 16 [] id = "right-leg" -> 32
    IN  Vec(w, 100 * w, -w)

\* The poses of the skinning pass: each set of bones displaced, the others at rest.
SkinPoses ==
    { [id \in BoneIds |->
          IF id \in S
          THEN Vec(DefaultPositions[id].x + SkinOffset(id).x,
                   DefaultPositions[id].y + SkinOffset(id).y,
                   DefaultPositions[id].z + SkinOffset(id).z)
          ELSE DefaultPositions[id]] : S \in SUBSET BoneIds }

InitSkin ==
    /\ variant \in {1, 2}
    /\ selectedBone = "null"
    /\ rotation = InitialRotation(variant)
    /\ cameraZoom = 1000
    /\ isDraggingRef = FALSE
    /\ lastMouseRef = [x |-> 0, y |-> 0]
    /\ activeGizmoAxis = "null"
    /\ gizmoDragRef = <<>>
    /\ bonePositions \in SkinPoses
    /\ vertex \in { <<v>> : v \in SkinVertices }
    /\ skinned = <<>>
    /\ currentTool = "move"
    /\ activePose = (IF variant = 2 THEN "t-pose" ELSE "none")
    /\ activeView = (IF variant = 2 THEN "isometric" ELSE "none")
    /\ prompt = ""
    /\ mesh = <<>>
    /\ isLoading = FALSE
    /\ pending = {}
    /\ started = 0
    /\ meshRequest = 0
    /\ alerts = 0
    /\ drawn = <<>>
    /\ events = 0

\* mesh.vertices.map(v => getSkinnedVertex(v)), for one vertex.
SkinPass ==
    /\ skinned = <<>>
    /\ skinned' = << getSkinnedVertex(vertex[1]) >>
    /\ UNCHANGED <<sceneVars, presetVars, variant,
                   selectedBone, rotation, cameraZoom, isDraggingRef, lastMouseRef,
                   activeGizmoAxis, gizmoDragRef, bonePositions, vertex, events>>

NextSkin == SkinPass

SkinSpec == InitSkin /\ [][NextSkin]_vars

(***************************************************************************)
(* The renderer on its own: one RenderedMesh pass over one mesh under one  *)
(* camera and one pose.                                                    *)
(***************************************************************************)
\* The meshes handed to the renderer; each satisfies the face invariant.
RenderMeshes == { FallbackCube, ThreeLayers, TiedFaces, NoFaces }

\* The cameras of the renderer pass: the two initial cameras and the front, side and
\* top presets.  Under each of them every vertex of RenderMeshes is in front of the
\* camera (z2 + 5 > 0).
RenderRotations ==
    { InitialRotation(1), InitialRotation(2), [x |-> 0, y |-> 0], [x |-> 0, y |-> 180],
      [x |-> 180, y |-> 0] }

\* The poses of the renderer pass: at rest, the left arm raised, every bone displaced.
RenderPoses ==
    { pos \in SkinPoses :
         { id \in BoneIds : pos[id] # DefaultPositions[id] } \in {{}, {"left-arm"}, BoneIds} }

InitRender ==
    /\ variant \in {1, 2}
    /\ selectedBone \in {"null", "left-arm"}
    /\ rotation \in RenderRotations
    /\ cameraZoom \in {500, 1000}
    /\ isDraggingRef = FALSE
    /\ lastMouseRef = [x |-> 0, y |-> 0]
    /\ activeGizmoAxis = "null"
    /\ gizmoDragRef = <<>>
    /\ bonePositions \in RenderPoses
    /\ vertex = <<>>
    /\ skinned = <<>>
    /\ currentTool = "move"
    /\ activePose = (IF variant = 2 THEN "t-pose" ELSE "none")
    /\ activeView = (IF variant = 2 THEN "isometric" ELSE "none")
    /\ prompt = ""
    /\ mesh \in { <<m>> : m \in RenderMeshes }
    /\ isLoading = FALSE
    /\ pending = {}
    /\ started = 0
    /\ meshRequest = 0
    /\ alerts = 0
    /\ drawn = <<>>
    /\ events = 0

\* One evaluation of RenderedMesh.
RenderPass ==
    /\ drawn = <<>>
    /\ drawn' = << RenderedMesh >>
    /\ UNCHANGED <<variant, selectedBone, rotation, cameraZoom, isDraggingRef, lastMouseRef,
                   activeGizmoAxis, gizmoDragRef, bonePositions, vertex, skinned,
                   currentTool, activePose, activeView, prompt, mesh, isLoading, pending,
                   started, meshRequest, alerts, events>>

NextRender == RenderPass

RenderSpec == InitRender /\ [][NextRender]_vars

(***************************************************************************)
(* Properties.                                                             *)
(***************************************************************************)
Idle == ~isDraggingRef /\ activeGizmoAxis = "null" /\ gizmoDragRef = <<>>

GizmoDragging == activeGizmoAxis # "null" /\ selectedBone # "null" /\ gizmoDragRef # <<>>

\* In this step no bone coordinate changes but, at most, coordinate a of bone id.
OnlyCoordinate(id, a) ==
    \A b \in BoneIds : \A c \in Axes :
        (b # id \/ c # a) => bonePositions'[b][c] = bonePositions[b][c]

\* pos with the bones of ids put back to their default position.
ResetBones(pos, ids) == [id \in BoneIds |-> IF id \in ids THEN DefaultPositions[id] ELSE pos[id]]

RECURSIVE SumDisplacements(_, _)
\* The sum of the displacements of the bones of ids under pos.
SumDisplacements(pos, ids) ==
    IF ids = {} THEN Vec(0, 0, 0)
    ELSE LET id == CHOOSE b \in ids : TRUE
             rest == SumDisplacements(pos, ids \ {id})
         IN  Vec(rest.x + pos[id].x - DefaultPositions[id].x,
                 rest.y + pos[id].y - DefaultPositions[id].y,
                 rest.z + pos[id].z - DefaultPositions[id].z)

\* The bones whose Y influence interval, limits included, contains vy.
BonesCovering(vy) ==
    { id \in BoneIds : vy >= BoneOf(id).influenceY[1] /\ vy <= BoneOf(id).influenceY[2] }

\* C1: after any sequence of orbit pointer-moves and view presets the camera pitch
\* is within [-90, 90] degrees (half degrees: [-180, 180]).
C1_PitchClamped == rotation.x >= -180 /\ rotation.x <= 180

\* The pitch sits on the lower limit, which only a clamped orbit move reaches.
C1_Witness == rotation.x = -180 /\ isDraggingRef

\* C2: after any sequence of wheel events, in any interaction state, the zoom is
\* within [0.1, 5.0] (thousandths: [100, 5000]).
C2_ZoomClamped == cameraZoom >= 100 /\ cameraZoom <= 5000

\* The zoom sits on the lower limit, which only a clamped wheel event reaches, while
\* a gizmo drag is active.
C2_Witness == cameraZoom = 100 /\ activeGizmoAxis # "null"

\* C3: orbiting (isDraggingRef) and gizmo-dragging (activeGizmoAxis, gizmoDragRef) are
\* never active together.
C3_MutualExclusion == ~(isDraggingRef /\ (activeGizmoAxis # "null" \/ gizmoDragRef # <<>>))

\* C4: a pointer-up or pointer-leave puts the controller in idle from any state and
\* rolls nothing back: bones, camera rotation, zoom and selection keep their values.
C4_PointerUpEndsInteraction ==
    [][(MouseUp \/ MouseLeave)
          => /\ Idle'
             /\ UNCHANGED <<bonePositions, rotation, cameraZoom, selectedBone>>]_vars

\* The controller is idle and a bone holds a coordinate only a gizmo drag writes.
C4_Witness ==
    /\ Idle
    /\ \E id \in BoneIds : \E a \in Axes :
          bonePositions[id][a] \notin EditValues \cup {DefaultPositions[id][a]}

\* C5: pressing a gizmo axis, and releasing it, change no bone position, so a press
\* and release with no pointer-move in between leaves the bones as they were, however
\* often it is replayed.
C5_PressReleaseKeepsBones ==
    [][(GizmoMouseDown \/ MouseUp \/ MouseLeave) => UNCHANGED bonePositions]_vars

\* A gizmo axis of a displaced bone is pressed and the pointer has not moved it yet.
C5_Witness ==
    /\ GizmoDragging
    /\ gizmoDragRef[1].startVal = bonePositions[selectedBone][activeGizmoAxis]
    /\ bonePositions[selectedBone] # DefaultPositions[selectedBone]

\* C6: a gizmo-drag pointer-move and a numeric edit change only the selected bone's
\* coordinate on the axis involved; every other coordinate of every bone is unchanged.
C6_OnlyOneCoordinate ==
    [][/\ (GizmoDragging /\ MouseMove) => OnlyCoordinate(selectedBone, activeGizmoAxis)
       /\ \A axis \in Axes : \A val \in EditValues :
             handleNumericEdit(axis, val) => OnlyCoordinate(selectedBone, axis)]_vars

\* A gizmo drag has moved the torso, the declared parent of the arms and legs, on one
\* axis, and every other bone is at its default position.
C6_Witness ==
    /\ bonePositions["torso"].y \notin EditValues \cup {DefaultPositions["torso"].y}
    /\ bonePositions = [DefaultPositions EXCEPT !["torso"].y = bonePositions["torso"].y]

\* C7: from the default pose, a Y-gizmo drag of left-arm that the sensitivity formula
\* maps to +0.4 gives left-arm.y = 1.7 with every other coordinate unchanged, and the
\* next skin pass shifts the vertices with y in [1.1, 1.5] and x <= 0 by exactly +0.4
\* in y and moves no other vertex.
C7_EndToEnd ==
    [][(/\ bonePositions = DefaultPositions
        /\ selectedBone = "left-arm"
        /\ activeGizmoAxis = "y"
        /\ gizmoDragRef # <<>>
        /\ \E e \in PointerPoints :
              /\ handleMouseMove(e)
              /\ gizmoDragRef[1].startVal = DefaultPositions["left-arm"].y
              /\ GizmoNewVal(e) - gizmoDragRef[1].startVal = 400)
          => /\ bonePositions' = [DefaultPositions EXCEPT !["left-arm"].y = 1700]
             /\ \A v \in SkinVertices :
                   skinWith(bonePositions', v) =
                      IF v.y >= 1100 /\ v.y <= 1500 /\ v.x <= 0
                      THEN Vec(v.x, v.y + 400, v.z)
                      ELSE v]_vars

\* The Y gizmo of left-arm, pressed at the default pose, has been dragged by +0.4.
C7_Witness ==
    /\ selectedBone = "left-arm"
    /\ activeGizmoAxis = "y"
    /\ gizmoDragRef # <<>>
    /\ gizmoDragRef[1].startVal = 1300
    /\ bonePositions = [DefaultPositions EXCEPT !["left-arm"].y = 1700]

\* C8: at the default pose the skinning pass returns every vertex unchanged.
C8_DefaultPoseIdentity ==
    (skinned # <<>> /\ bonePositions = DefaultPositions) => skinned[1] = vertex[1]

\* A vertex with x = 0 and y = 1.4, inside four influence ranges, skinned at the
\* default pose.
C8_Witness ==
    /\ skinned # <<>>
    /\ bonePositions = DefaultPositions
    /\ vertex[1].x = 0
    /\ vertex[1].y = 1400

\* C9: a vertex with x < 0 is skinned as if every right-side bone were at rest, and a
\* vertex with x > 0 as if every left-side bone were at rest, whatever its y.
C9_SideIsolation ==
    skinned # <<>> =>
        /\ vertex[1].x < 0
              => skinned[1] = skinWith(ResetBones(bonePositions, {"right-arm", "right-leg"}),
                                       vertex[1])
        /\ vertex[1].x > 0
              => skinned[1] = skinWith(ResetBones(bonePositions, {"left-arm", "left-leg"}),
                                       vertex[1])

\* A vertex with x < 0 inside the range of the displaced right-arm, moved by the
\* skinning pass (by other bones).
C9_Witness ==
    /\ skinned # <<>>
    /\ vertex[1].x < 0
    /\ vertex[1].y = 1300
    /\ bonePositions["right-arm"] # DefaultPositions["right-arm"]
    /\ skinned[1] # vertex[1]

\* C10 as stated: a vertex with x = 0 receives no offset from a right-side bone, so it
\* is skinned as if every right-side bone were at rest.
C10_RightBonesSkipXZero ==
    (skinned # <<>> /\ vertex[1].x = 0)
        => skinned[1] = skinWith(ResetBones(bonePositions, {"right-arm", "right-leg"}),
                                 vertex[1])

\* C10 amended: a vertex with x = 0 receives the displacement of every bone covering
\* its y, left-side and right-side alike.
C10_XZeroTakesBothSides ==
    (skinned # <<>> /\ vertex[1].x = 0)
        => LET d == SumDisplacements(bonePositions, BonesCovering(vertex[1].y))
           IN  skinned[1] = Vec(vertex[1].x + d.x, vertex[1].y + d.y, vertex[1].z + d.z)

\* A vertex with x = 0 inside the ranges of the displaced left-arm and right-arm.
C10_Witness ==
    /\ skinned # <<>>
    /\ vertex[1].x = 0
    /\ vertex[1].y = 1300
    /\ bonePositions["left-arm"] # DefaultPositions["left-arm"]
    /\ bonePositions["right-arm"] # DefaultPositions["right-arm"]

\* Three times the mean depth of face number f (from 0) of the displayed mesh: the sum
\* of the depths of its three skinned and projected vertices.
FaceDepth(f) ==
    LET face == mesh[1].faces.items[f + 1]
        vertices == mesh[1].vertices.items
        Depth(n) == LET v == vertices[face[n] + 1]
                        sv == skinWith(bonePositions, Vec(v[1], v[2], v[3]))
                    IN  projectWith(rotation, cameraZoom, sv.x, sv.y, sv.z).depth
    IN  Depth(1) + Depth(2) + Depth(3)

\* C11: the renderer emits the faces in order of non-increasing face depth (the mean of
\* the three projected vertex depths), farthest first: faces at depths 5, 1, 3 are
\* drawn as 5, 3, 1.  The emitted list is a permutation of the faces of the mesh, none
\* dropped or duplicated, and equal depths cause no failure.
C11_FarthestFirst ==
    drawn # <<>> =>
        LET polygons == drawn[1].polygons
            faces == mesh[1].faces.items
        IN  /\ drawn[1].status = "ok"
            /\ Len(polygons) = Len(faces)
            /\ \A f \in 0..(Len(faces) - 1) :
                   Cardinality({ k \in 1..Len(polygons) : polygons[k].face = f }) = 1
            /\ \A k \in 1..Len(polygons) : polygons[k].depth = FaceDepth(polygons[k].face)
            /\ \A k \in 1..(Len(polygons) - 1) : polygons[k].depth >= polygons[k + 1].depth
            /\ (mesh[1] = ThreeLayers /\ rotation = [x |-> 0, y |-> 0])
                  => /\ [k \in 1..3 |-> polygons[k].depth] = <<15000, 9000, 3000>>
                     /\ [k \in 1..3 |-> polygons[k].face] = <<0, 2, 1>>

\* A mesh has been drawn in which two faces tie on depth and two others do not, and
\* the order of the faces had to change.
C11_Witness ==
    /\ drawn # <<>>
    /\ drawn[1].status = "ok"
    /\ \E k \in 1..(Len(drawn[1].polygons) - 1) :
          drawn[1].polygons[k].depth = drawn[1].polygons[k + 1].depth
    /\ \E k \in 1..(Len(drawn[1].polygons) - 1) :
          /\ drawn[1].polygons[k].depth > drawn[1].polygons[k + 1].depth
          /\ drawn[1].polygons[k].face > drawn[1].polygons[k + 1].face

\* The provider call failed, in one of the ways the catch block of generate3DMesh sees:
\* the call rejected, returned no text or no JSON, or JSON without "vertices" or "faces".
CaughtFailure(response) ==
    \/ response.kind \in {"rejects", "no-text", "not-json", "json-null"}
    \/ /\ response.kind = "json"
       /\ response.vertices.tag \in {"missing", "falsy"} \/ response.faces.tag \in {"missing", "falsy"}

\* m is the cube [-1, 1]^3: its 8 corners, 12 triangles over them, two of each color.
IsColoredCube(m) ==
    /\ m.vertices.tag = "list" /\ m.faces.tag = "list"
    /\ Len(m.vertices.items) = 8
    /\ { m.vertices.items[i] : i \in 1..8 }
          = { <<x, y, z>> : x \in {-1000, 1000}, y \in {-1000, 1000}, z \in {-1000, 1000} }
    /\ Len(m.faces.items) = 12
    /\ \A i \in 1..12 : \A k \in 1..3 : m.faces.items[i][k] \in 0..7
    /\ \A color \in {"#FF0000", "#00FF00", "#0000FF", "#FFFF00", "#00FFFF", "#FF00FF"} :
          Cardinality({ i \in 1..12 : m.faces.items[i][4] = color }) = 2

\* C12: whenever the provider call fails, whatever the prompt and the kind of failure,
\* generate3DMesh returns one fixed mesh: the 8 corners of the cube [-1, 1]^3 and 12
\* triangles, every index within [0, 8), two faces for each of the six colors.
C12_FallbackCubeOnFailure ==
    [][\A request \in pending : \A response \in ProviderResponses :
          (CaughtFailure(response) /\ resumeGenerateModel(request, response))
             => /\ mesh' = <<FallbackCube>>
                /\ IsColoredCube(mesh'[1])
                /\ \A other \in ProviderResponses : \A text \in Prompts :
                      CaughtFailure(other)
                         => generate3DMesh([request EXCEPT !.prompt = text], other).value
                               = mesh']_vars

\* The cube is displayed: no response of the provider carries it, so a call failed.
C12_Witness == mesh = <<FallbackCube>> /\ meshRequest >= 1 /\ alerts = 0

\* The provider rejected or returned malformed data: no text, no JSON, or a value
\* that is not a vertex list plus a face list.
Malformed(response) ==
    \/ response.kind \in {"rejects", "no-text", "not-json", "json-null"}
    \/ /\ response.kind = "json"
       /\ response.vertices.tag # "list" \/ response.faces.tag # "list"

\* C13: when the provider rejects or returns malformed data, generate3DMesh resolves
\* with the fallback cube, the Animator commits the cube as the displayed mesh, and
\* the Animator's catch branch (the alert) is not taken.
C13_FailureRecoveredLocally ==
    [][\A request \in pending : \A response \in ProviderResponses :
          (Malformed(response) /\ resumeGenerateModel(request, response))
             => /\ mesh' = <<FallbackCube>>
                /\ alerts' = alerts]_vars

\* C14: every displayed mesh satisfies the face invariant: the three vertex indices of
\* each face are within [0, vertexCount).
C14_FaceIndicesInRange ==
    (mesh # <<>> /\ mesh[1].vertices.tag = "list" /\ mesh[1].faces.tag = "list")
        => \A i \in 1..Len(mesh[1].faces.items) : \A k \in 1..3 :
              /\ mesh[1].faces.items[i][k] >= 0
              /\ mesh[1].faces.items[i][k] < Len(mesh[1].vertices.items)

\* C15 as stated: requests are not sequenced, a request can be started while an
\* earlier one is pending (and the earlier one may then resolve last).
C15_RequestsNotSequenced ==
    (pending # {} /\ prompt # "") => ENABLED GenerateClick

\* C15 amended: requests are not cancelled but they are sequenced: at most one is
\* pending, it is the most recently started one, and every result committed as the
\* displayed mesh is the result of the most recently started request.
C15_CommitsAreLatest ==
    [][/\ Cardinality(pending) <= 1
       /\ \A request \in pending : request.id = started
       /\ (mesh' # mesh \/ meshRequest' # meshRequest) => meshRequest' = started]_vars

\* A second request is pending while the mesh of the first is displayed.
C15_Witness == started = 2 /\ meshRequest = 1 /\ Cardinality(pending) = 1

\* The (pitch, yaw) pair VIEWS declares for a view, in half degrees.
DeclaredRotation(view) ==
    CASE view = "front" -> [x |-> 0, y |-> 0]
      [] view = "isometric" -> [x |-> 60, y |-> 90]
      [] view = "side" -> [x |-> 0, y |-> 180]
      [] view = "back" -> [x |-> 0, y |-> 360]
      [] view = "top" -> [x |-> 180, y |-> 0]

\* C16: selecting a view preset, from any state, sets the camera rotation to exactly
\* the preset's declared (pitch, yaw) pair (side: (0, 90)) and changes no bone
\* position; zoom and selection are unchanged too.
C16_ViewPresetSetsCamera ==
    [][\A view \in {"front", "isometric", "side", "back", "top"} :
          handleViewSelect(view)
             => /\ rotation' = DeclaredRotation(view)
                /\ UNCHANGED <<bonePositions, cameraZoom, selectedBone>>]_vars

\* The side view has been selected while a displaced bone was being dragged.
C16_Witness ==
    /\ activeView = "side"
    /\ rotation = [x |-> 0, y |-> 180]
    /\ GizmoDragging
    /\ bonePositions # DefaultPositions

\* C17: selecting any pose preset, from any bone state, puts every bone at its default
\* position, so the six presets give the same layout and the next skin pass is the
\* identity; camera rotation, zoom and selection are unchanged.
C17_PosePresetResetsBones ==
    [][\A pose \in {"t-pose", "standing", "walking", "running", "action", "sitting"} :
          handlePoseSelect(pose)
             => /\ \A id \in BoneIds : bonePositions'[id] = BoneOf(id).defaultPos
                /\ \A v \in { w \in SkinVertices : w.y \in {300, 1400} /\ w.z = 0 } :
                      skinWith(bonePositions', v) = v
                /\ UNCHANGED <<rotation, cameraZoom, selectedBone>>]_vars

\* A pose preset was selected during the drag of a bone that was displaced when the
\* drag started: the bone is back at its default position.
C17_Witness ==
    /\ activePose = "sitting"
    /\ GizmoDragging
    /\ gizmoDragRef[1].startVal # bonePositions[selectedBone][activeGizmoAxis]
    /\ bonePositions = DefaultPositions

\* C18: in every state Bone Position State maps exactly the six bones (head, torso,
\* left-arm, right-arm, left-leg, right-leg) to a position with the coordinates x, y,
\* z; it starts with every bone at its default position, and no operation removes a
\* bone or adds a key.
C18_FullBoneSet ==
    /\ DOMAIN bonePositions
          = {"head", "torso", "left-arm", "right-arm", "left-leg", "right-leg"}
    /\ \A id \in DOMAIN bonePositions : DOMAIN bonePositions[id] = {"x", "y", "z"}
    /\ events = 0 => \A i \in 1..Len(BONES) : bonePositions[BONES[i].id] = BONES[i].defaultPos

\* A bone has been edited and a mesh request is pending.
C18_Witness == bonePositions # DefaultPositions /\ isLoading /\ selectedBone # "null"

\* The length of the projected direction of the dragged axis (len of handleMouseMove).
AxisScreenLength ==
    LET pos == bonePositions[selectedBone]
        tip == [pos EXCEPT ![activeGizmoAxis] = @ + 500]
        p == projectWith(rotation, cameraZoom, pos.x, pos.y, pos.z)
        q == projectWith(rotation, cameraZoom, tip.x, tip.y, tip.z)
    IN  Hypot(q.x - p.x, q.y - p.y)

OrbitTools == {"select", "rotate"}

\* C20: while the active tool is select or rotate, pointer interaction is camera orbit
\* only: a pointer-down on a gizmo handle under one of these tools gives no access to
\* gizmo manipulation (it starts no gizmo drag), and no pointer-down, gizmo
\* pointer-down or pointer-move handled under one of them changes any bone position.
C20_OrbitToolsKeepBones ==
    [][/\ (currentTool \in OrbitTools /\ GizmoMouseDown)
            => UNCHANGED <<activeGizmoAxis, gizmoDragRef>>
       /\ (currentTool \in OrbitTools /\ (MouseDown \/ GizmoMouseDown \/ MouseMove))
            => UNCHANGED bonePositions]_vars

\* C21: gizmo interaction without a selected bone is a no-op: a gizmo pointer-down
\* with no bone selected changes nothing (it does not enter gizmo-dragging and records
\* no drag snapshot), a bone-change request with no selection returns the bone
\* positions unchanged, and in every reachable state an active gizmo axis or a
\* recorded drag snapshot implies that a bone is selected.
C21_NoSelectionNoGizmo ==
    /\ [](/\ (activeGizmoAxis # "null" \/ gizmoDragRef # <<>>) => selectedBone # "null"
          /\ selectedBone = "null"
                => \A axis \in Axes : \A val \in EditValues :
                      handleBoneChange(bonePositions, axis, val) = bonePositions)
    /\ [][(selectedBone = "null" /\ GizmoMouseDown) => UNCHANGED progVars]_vars

\* No bone is selected, events have been handled, and a gizmo pointer-down can still
\* be delivered to the handler.
C21_Witness ==
    /\ selectedBone = "null"
    /\ events > 0
    /\ ENABLED Event(GizmoMouseDown)

\* A pointer-move in this state takes the orbit branch of handleMouseMove.
Orbiting == isDraggingRef /\ ~GizmoDragging

\* C22: the yaw is never clamped.  A pointer-down that starts an orbit records the
\* pointer position and leaves the rotation alone, and every orbit pointer-move adds
\* to the yaw 0.5 degrees per pixel (one half degree per pixel) of the difference
\* between the pointer's x and the previously recorded x, and records the pointer
\* position, whatever happens to the pitch.  Hence yaw - 0.5 * (recorded x) is the
\* same before and after every orbit move, and over one orbit drag the yaw changes by
\* 0.5 * (last pointer x - pointer-down x) on every path.
C22_YawIsSumOfDeltas ==
    [][/\ (activeGizmoAxis = "null" /\ MouseDown)
            => \E e \in PointerPoints :
                  /\ handleMouseDown(e)
                  /\ isDraggingRef'
                  /\ lastMouseRef' = e
                  /\ rotation' = rotation
       /\ (Orbiting /\ MouseMove)
            => \E e \in PointerPoints :
                  /\ handleMouseMove(e)
                  /\ lastMouseRef' = e
                  /\ rotation'.y = rotation.y + (e.x - lastMouseRef.x)
                  /\ rotation'.y - lastMouseRef'.x = rotation.y - lastMouseRef.x]_vars

\* An orbit drag pressed at x = 90 has moved to x = 0 with the pitch clamped on its
\* lower limit: the yaw is 45 degrees less than the initial yaw.
C22_Witness ==
    /\ Orbiting
    /\ events = 2
    /\ lastMouseRef.x = 0
    /\ rotation.x = -180
    /\ rotation.y = InitialRotation(variant).y - 90

\* C23: the selection can be cleared: in every state in which a bone is selected and
\* the page still handles events, some event of the page leads to a state in which
\* no bone is selected.
C23_SelectionCanBeCleared ==
    (selectedBone # "null" /\ events < MaxEvents)
        => ENABLED (NextAnimator /\ selectedBone' = "null")

\* Points handed to project: coordinates in thousandths, on both sides of each axis.
ProjectPoints ==
    { Vec(x, y, z) : x \in {-1500, 0, 300, 2000}, y \in {-1000, 0, 1600}, z \in {-2000, 0, 300, 1500} }

\* pitch 0, yaw 0, zoom 1.
IdentityCamera == rotation = [x |-> 0, y |-> 0] /\ cameraZoom = 1000

\* 400 / (z + 5), in thousandths.
IdentityScale(z) == Quot(400 * 1000 * 1000, z + 5000)

\* C24: at the identity camera (pitch 0, yaw 0, zoom 1) project(x, y, z) returns
\* depth = z exactly, scale = 400 / (z + 5), screenX = 400 + 150 * x * scale and
\* screenY = 300 - 150 * y * scale.
C24_IdentityProjection ==
    IdentityCamera
        => \A p \in ProjectPoints :
              LET r == project(p.x, p.y, p.z)
              IN  /\ r.depth = p.z
                  /\ r.scale = IdentityScale(p.z)
                  /\ r.x = 400 + Quot(MulDiv(150 * p.x, IdentityScale(p.z), 1000), 1000)
                  /\ r.y = 300 - Quot(MulDiv(150 * p.y, IdentityScale(p.z), 1000), 1000)

\* The front view has put the camera on the identity while a bone is selected, whose
\* marker and gizmo the page draws with project.
C24_Witness ==
    /\ IdentityCamera
    /\ activeView = "front"
    /\ selectedBone # "null"

\* The side of bone id matches a vertex with x = vx: the vertex is not on the opposite
\* side (a vertex with x = 0 is on neither side).
SideMatches(id, vx) ==
    /\ id \in {"left-arm", "left-leg"} => vx <= 0
    /\ id \in {"right-arm", "right-leg"} => vx >= 0

\* The bones that contribute to vertex v: Y interval, limits included, and side.
Contributing(v) == { id \in BonesCovering(v.y) : SideMatches(id, v.x) }

\* C25: the skinned vertex is the original vertex plus the plain sum, neither weighted
\* nor divided, of (currentPosition - defaultPosition) over all bones whose inclusive Y
\* interval contains the vertex's y and whose side matches; where several bones
\* overlap all their offsets are added in full, and where no bone contributes the
\* vertex is returned unchanged.
C25_UnweightedSum ==
    skinned # <<>> =>
        LET v == vertex[1]
            d == SumDisplacements(bonePositions, Contributing(v))
        IN  /\ skinned[1] = Vec(v.x + d.x, v.y + d.y, v.z + d.z)
            /\ Contributing(v) = {} => skinned[1] = v

\* A vertex with x < 0 and y = 1.4 skinned while head, torso and left-arm, which all
\* cover it, are displaced.
C25_Witness ==
    /\ skinned # <<>>
    /\ vertex[1].x < 0
    /\ vertex[1].y = 1400
    /\ Contributing(vertex[1]) = {"head", "torso", "left-arm"}
    /\ \A id \in {"head", "torso", "left-arm"} : bonePositions[id] # DefaultPositions[id]

BoneKinds == {"connector", "marker"}

GizmoKinds == {"gizmo-line", "gizmo-arrow", "gizmo-square", "gizmo-center"}

\* In the draw list d every primitive of a kind of below comes before every primitive
\* of a kind of above.
Beneath(d, below, above) ==
    \A i, j \in 1..Len(d) : (d[i].kind \in below /\ d[j].kind \in above) => i < j

\* C26: the layers of the draw list are in back-to-front order: all mesh faces come
\* before all bone primitives, every bone connector comes before every bone marker,
\* and the gizmo primitives of the selected bone come after all bone markers.
C26_LayersBackToFront ==
    LET d == DrawList
    IN  /\ Beneath(d, {"face"}, BoneKinds)
        /\ Beneath(d, {"connector"}, {"marker"})
        /\ Beneath(d, {"marker"}, GizmoKinds)

\* C27: the effects of a pointer-move are exclusive by interaction state: while a gizmo
\* drag is active it never changes the camera rotation, even if the orbit flag is also
\* set; while only the orbit is active it never changes a bone position; and in idle
\* it changes neither the bones nor the camera.
C27_MoveEffectsExclusive ==
    [][MouseMove
          => /\ GizmoDragging => UNCHANGED <<rotation, cameraZoom, lastMouseRef>>
             /\ Orbiting => UNCHANGED bonePositions
             /\ (~GizmoDragging /\ ~isDraggingRef)
                   => UNCHANGED <<bonePositions, rotation, cameraZoom>>]_vars

\* The orbit flag and a gizmo drag are set together, and a pointer-move has moved the
\* dragged coordinate away from its drag-start value.
C27_Witness ==
    /\ isDraggingRef
    /\ GizmoDragging
    /\ bonePositions[selectedBone][activeGizmoAxis] # gizmoDragRef[1].startVal

\* C28: the loading state tracks the pending request.  isLoading is true exactly while
\* a request is pending; a generation action with a non-empty prompt starts a request,
\* sets isLoading and leaves the displayed mesh alone; the displayed mesh does not
\* change for as long as the request stays pending; the step in which the provider
\* call settles, by success or by failure, leaves isLoading false; and a generation
\* action with an empty prompt starts no request and changes nothing.
C28_LoadingTracksRequest ==
    /\ [](isLoading <=> pending # {})
    /\ [][/\ (prompt # "" /\ GenerateClick)
               => /\ isLoading'
                  /\ started' = started + 1
                  /\ pending' # {}
                  /\ UNCHANGED <<mesh, meshRequest>>
          /\ (pending # {} /\ pending' # {}) => UNCHANGED <<mesh, meshRequest>>
          /\ GenerateSettle => (~isLoading' /\ pending' = {})
          /\ started' # started => prompt # ""
          /\ (prompt = "" /\ GenerateClick) => UNCHANGED progVars]_vars

\* A request has settled by failure (the alert was shown) and isLoading is false again.
C28_Witness ==
    /\ started = 1
    /\ alerts = 1
    /\ pending = {}
    /\ ~isLoading

\* The pointer position recorded when the drag started.
DragStartPoint == [x |-> gizmoDragRef[1].startX, y |-> gizmoDragRef[1].startY]

\* C29: during a gizmo drag, a pointer-move whose pointer coordinates equal the
\* drag-start coordinates sets the dragged coordinate to exactly its drag-start value
\* startVal and changes no other coordinate, whatever pointer-moves and zoom changes
\* happened earlier in the drag: in every state of a drag that is what the handler
\* computes for such a move, and every such step does it.
C29_ReturnToStart ==
    /\ [](GizmoDragging
            => handleBoneChange(bonePositions, activeGizmoAxis, GizmoNewVal(DragStartPoint))
                  = [bonePositions EXCEPT ![selectedBone][activeGizmoAxis] =
                                               gizmoDragRef[1].startVal])
    /\ [][(GizmoDragging /\ handleMouseMove(DragStartPoint))
            => /\ bonePositions'[selectedBone][activeGizmoAxis] = gizmoDragRef[1].startVal
               /\ OnlyCoordinate(selectedBone, activeGizmoAxis)]_vars

\* A gizmo drag in which the coordinate has been moved away from its drag-start value
\* and the zoom has been changed.
C29_Witness ==
    /\ GizmoDragging
    /\ bonePositions[selectedBone][activeGizmoAxis] # gizmoDragRef[1].startVal
    /\ cameraZoom # 1000

\* C30: at most one mesh-generation request is in flight at any time: while isLoading
\* is true the generate control is disabled, and a request is started only in a state
\* in which isLoading is false and no request is pending.
C30_OneRequestInFlight ==
    /\ [](/\ Cardinality(pending) <= 1
          /\ isLoading => ~ENABLED GenerateClick)
    /\ [][started' # started => (~isLoading /\ pending = {})]_vars

\* A request is in flight with a prompt in the field, the page still handles events,
\* and the generate control is disabled.
C30_Witness ==
    /\ Cardinality(pending) = 1
    /\ isLoading
    /\ prompt # ""
    /\ events < MaxEvents
    /\ ~ENABLED GenerateClick

====
